---- MODULE Spec2Model ----
(***************************************************************************)
(* A model of the salesnisha data-access layer: DatabaseRepository         *)
(* (src/app/datacontext.py) and the sync routines (src/app/datamanager.py).*)
(*                                                                         *)
(* Tasks are asyncio tasks calling repository methods.  Every `await` of   *)
(* the source is a point where another task may run, so every method is    *)
(* cut into one action per await.  The relational store and the connection *)
(* pool are external collaborators (PostgreSQL, psycopg, psycopg_pool);    *)
(* they are modelled by their documented behaviour: statements run in a    *)
(* transaction that is invisible to other connections until commit, a row  *)
(* written by an open transaction is locked against other writers, now()   *)
(* is the start time of the transaction, and a pool hands out at most      *)
(* max_size connections.                                                   *)
(***************************************************************************)
EXTENDS Integers, Sequences, FiniteSets, TLC

(***************************************************************************)
(* Bounds of the model.                                                    *)
(***************************************************************************)
NTasks == 2
MaxPools == 2
MaxClock == 2
NPageKeys == 4
MaxLimit == 3
MaxEvents == 2
MaxBatch == 3

\* DatabaseConfig.max_size, read from DB_POOL_MAX_SIZE.  The model takes a
\* small value so that tasks do contend for connections.
max_size == 1

Tasks == 1..NTasks
PoolIds == 1..MaxPools

\* The keys the callers of SpecItems use: itemid and locid are strings in
\* the source, ordered by the store's collation; the model takes integers.
ItemKeys == {1, 2}
LocKeys == {1}

\* The user-supplied fields of an Item (models.py): two records that differ
\* in every field.
ItemFields ==
    { [name |-> "n1", description |-> "d1", unitofsale |-> "ea"],
      [name |-> "n2", description |-> "d2", unitofsale |-> "kg"] }

\* The user-supplied fields of a Location (models.py), likewise.
LocFields ==
    { [name |-> "n1", description |-> "d1", address |-> "a1", contact |-> "c1",
       latitude |-> "x1", longitude |-> "y1", storecategory |-> "retail",
       locationcategory |-> "store", storecategorynote |-> "s1",
       locationcategorynote |-> "l1"],
      [name |-> "n2", description |-> "d2", address |-> "a2", contact |-> "c2",
       latitude |-> "x2", longitude |-> "y2", storecategory |-> "kiosk",
       locationcategory |-> "mall", storecategorynote |-> "s2",
       locationcategorynote |-> "l2"] }

\* Decomposed dates and times of a SaleEvent (models.py): two values of
\* every date field, so that every order of two dates occurs.
Years == {2024, 2025}
Months == {1, 2}
Days == {1, 2}
Hours == {0, 23}
Dates == Years \X Months \X Days

Event(y, m, d, h) ==
    [locid |-> "L1", itemid |-> "I1", saleqty |-> 1, year |-> y, month |-> m,
     day |-> d, hour |-> h, minute |-> 0, second |-> 0, event_timezone |-> "UTC"]

Events == {Event(x[1], x[2], x[3], h) : x \in Dates, h \in Hours}

\* A tuple the store rejects: its year is not of the column's type.  The
\* value stands for any value that is no integer (a string, say).
NotAnInteger == 0 - 1

BadEvent == [Event(2024, 1, 1, 0) EXCEPT !.year = NotAnInteger]

\* The tuples of the batches of SpecBulk.
BatchTuples == {Event(2024, 1, 1, 0), Event(2025, 2, 2, 23), BadEvent}

VARIABLES
    repo_pool,    \* DatabaseRepository._pool: 0 is None, else a pool id
    poolState,    \* pool id -> "unborn" | "created" | "open" | "closed"
    conn,         \* task -> sequence of the pools it holds a connection of
    pc,           \* task -> position in the method it runs
    call,         \* task -> the method it runs and its arguments
    txn,          \* task -> writes of its connection's open transaction
    ret,          \* task -> result of the finished call
    item,         \* committed rows of relation item: itemid -> row
    locations,    \* committed rows of relation locations: locid -> row
    sale_events,  \* committed rows of relation sale_events, in commit order
    next_id,      \* the serial sequence behind sale_events.id
    clock         \* the store's clock

vars == << repo_pool, poolState, conn, pc, call, txn, ret,
           item, locations, sale_events, next_id, clock >>

poolVars == << repo_pool, poolState >>
storeVars == << item, locations, sale_events, next_id >>

NoCall == [op |-> "none", pool |-> 0]
NoRet == [kind |-> "none"]
None == [kind |-> "None"]
Raised(exc) == [kind |-> "raise", exc |-> exc]
Row(r) == [kind |-> "row", row |-> r]
Rows(rs) == [kind |-> "rows", rows |-> rs]
BoolVal(b) == [kind |-> "bool", val |-> b]
IntVal(n) == [kind |-> "int", val |-> n]

(***************************************************************************)
(* The connection pool (psycopg_pool.AsyncConnectionPool).                 *)
(***************************************************************************)
\* Number of connections of pool p that tasks hold.
Count(s, p) == Cardinality({i \in DOMAIN s : s[i] = p})

RECURSIVE SumOver(_, _, _)
SumOver(S, s, p) ==
    IF S = {} THEN 0
    ELSE LET t == CHOOSE x \in S : TRUE
         IN Count(s[t], p) + SumOver(S \ {t}, s, p)

Borrowed(p) == SumOver(Tasks, conn, p)

NewPools == {p \in PoolIds : poolState[p] = "unborn"}

\* Where a task goes when connect() returns to its caller.
AfterConnect(t) ==
    CASE call[t].op = "connect" -> "done"
      [] call[t].op \in {"UpdateItems", "UpdateLocations"} -> "load"
      [] OTHER -> "acquire"

\* A raise that leaves the method: health_check catches it and returns
\* False, every other method lets it reach the caller.
Leave(t, exc) ==
    IF call[t].op = "health_check"
    THEN /\ pc' = [pc EXCEPT ![t] = "done"]
         /\ ret' = [ret EXCEPT ![t] = BoolVal(FALSE)]
    ELSE /\ pc' = [pc EXCEPT ![t] = "raised"]
         /\ ret' = [ret EXCEPT ![t] = Raised(exc)]

\* connect without the `is None` test: it constructs a pool on every call.
connect_body_always(t) ==
    /\ NewPools # {}
    /\ LET p == CHOOSE q \in NewPools : \A r \in NewPools : q <= r
       IN /\ repo_pool' = p
          /\ poolState' = [poolState EXCEPT ![p] = "created"]
    /\ pc' = [pc EXCEPT ![t] = "open"]
    /\ call' = [call EXCEPT ![t] = [@ EXCEPT !.pool = repo_pool']]

\* connect, lines 36-42: with no pool, construct one and store it; the
\* task then awaits open().  With a pool, return at once.
connect_body(t) ==
    IF repo_pool = 0
    THEN /\ NewPools # {}
         /\ LET p == CHOOSE q \in NewPools : \A r \in NewPools : q <= r
            IN /\ repo_pool' = p
               /\ poolState' = [poolState EXCEPT ![p] = "created"]
         /\ pc' = [pc EXCEPT ![t] = "open"]
         /\ call' = [call EXCEPT ![t] = [@ EXCEPT !.pool = repo_pool']]
    ELSE /\ pc' = [pc EXCEPT ![t] = AfterConnect(t)]
         /\ UNCHANGED << repo_pool, poolState, call >>

connect(t) ==
    /\ pc[t] = "connect"
    /\ connect_body(t)
    /\ UNCHANGED << conn, txn, ret, storeVars, clock >>

\* connect, line 43: open() of the pool this task constructed returns.
\* A pool that was closed meanwhile cannot be opened.
connect_open(t) ==
    /\ pc[t] = "open"
    /\ LET p == call[t].pool
       IN IF poolState[p] = "closed"
          THEN /\ Leave(t, "PoolClosed")
               /\ UNCHANGED poolState
          ELSE /\ poolState' = [poolState EXCEPT ![p] = "open"]
               /\ pc' = [pc EXCEPT ![t] = AfterConnect(t)]
               /\ UNCHANGED ret
    /\ call' = [call EXCEPT ![t] = [@ EXCEPT !.pool = 0]]
    /\ UNCHANGED << repo_pool, conn, txn, storeVars, clock >>

\* disconnect, lines 47-48: with a pool, await its close().  close() of an
\* open pool marks it closed before it first suspends; close() of a pool
\* that is closed already returns without suspending, so line 49 follows
\* at once.  A pool constructed and not yet opened is either of the two,
\* by the version of psycopg_pool (see acquire).
disconnect(t) ==
    /\ pc[t] = "disconnect"
    /\ \E implicit \in BOOLEAN :
         IF repo_pool = 0
         THEN /\ pc' = [pc EXCEPT ![t] = "done"]
              /\ UNCHANGED << repo_pool, poolState >>
         ELSE IF \/ poolState[repo_pool] = "open"
                 \/ poolState[repo_pool] = "created" /\ implicit
         THEN /\ poolState' = [poolState EXCEPT ![repo_pool] = "closed"]
              /\ pc' = [pc EXCEPT ![t] = "closing"]
              /\ UNCHANGED repo_pool
         ELSE /\ repo_pool' = 0
              /\ pc' = [pc EXCEPT ![t] = "done"]
              /\ UNCHANGED poolState
    /\ UNCHANGED << conn, call, txn, ret, storeVars, clock >>

\* disconnect, line 49: close() has returned; forget the pool.
disconnect_done(t) ==
    /\ pc[t] = "closing"
    /\ repo_pool' = 0
    /\ pc' = [pc EXCEPT ![t] = "done"]
    /\ UNCHANGED << poolState, conn, call, txn, ret, storeVars, clock >>

\* get_connection, lines 54-55: with no pool, run connect().
get_connection(t) ==
    /\ pc[t] = "get_connection"
    /\ connect_body(t)
    /\ UNCHANGED << conn, txn, ret, storeVars, clock >>

\* get_connection, line 57: self._pool.connection() hands out a connection
\* of an open pool that has one left.  Whether a pool that was constructed
\* and not yet opened hands out connections depends on the version of
\* psycopg_pool (its constructor may open the pool itself), so both
\* outcomes are possible.
acquire(t) ==
    /\ pc[t] = "acquire"
    /\ repo_pool # 0
    /\ poolState[repo_pool] \in {"created", "open"}
    /\ Borrowed(repo_pool) < max_size
    /\ conn' = [conn EXCEPT ![t] = Append(@, repo_pool)]
    /\ pc' = [pc EXCEPT ![t] = "execute"]
    /\ UNCHANGED << poolVars, call, txn, ret, storeVars, clock >>

\* get_connection, line 57, failing: no pool object (AttributeError on
\* None), a pool that is closed or not open yet (PoolClosed), or no
\* connection within the pool's timeout (PoolTimeout).
acquire_fail(t) ==
    /\ pc[t] = "acquire"
    /\ \/ repo_pool = 0 /\ Leave(t, "AttributeError")
       \/ repo_pool # 0 /\ poolState[repo_pool] # "open" /\ Leave(t, "PoolClosed")
       \/ /\ repo_pool # 0
          /\ poolState[repo_pool] = "open"
          /\ Borrowed(repo_pool) >= max_size
          /\ Leave(t, "PoolTimeout")
    /\ UNCHANGED << poolVars, conn, call, txn, storeVars, clock >>

(***************************************************************************)
(* The relational store.  A statement reads the committed rows and yields  *)
(* the writes of the transaction and the value the method returns.         *)
(***************************************************************************)
\* created_at and updated_at of a row that an INSERT creates: no statement
\* of the repository names the two columns, so they take the defaults of
\* the schema, which is the time of the transaction for both.
schema_timestamps(now) == [created_at |-> now, updated_at |-> now]

ItemRow(k, f, ts) ==
    [itemid |-> k, name |-> f.name, description |-> f.description,
     unitofsale |-> f.unitofsale,
     created_at |-> ts.created_at, updated_at |-> ts.updated_at]

Put(rel, k, r) == [rel |-> rel, kind |-> "put", key |-> k, row |-> r]
Del(rel, k, r) == [rel |-> rel, kind |-> "del", key |-> k, row |-> r]
Out(ws, r) == [writes |-> ws, ret |-> r]

\* SELECT ... FROM item WHERE itemid = %s; fetchone(); row if row else None
get_item_sql(tbl, k) ==
    Out(<<>>, IF k \in DOMAIN tbl THEN Row(tbl[k]) ELSE None)

\* INSERT INTO item (itemid, name, description, unitofsale) ... RETURNING
insert_item_sql(tbl, k, f, now) ==
    IF k \in DOMAIN tbl
    THEN Out(<<>>, Raised("UniqueViolation"))
    ELSE LET r == ItemRow(k, f, schema_timestamps(now))
         IN Out(<< Put("item", k, r) >>, Row(r))

\* item_set as a replace of the whole row: created_at is set anew.
item_set_replace(old, f, now) ==
    [old EXCEPT !.name = f.name, !.description = f.description,
                !.unitofsale = f.unitofsale, !.updated_at = now,
                !.created_at = now]

\* The row an UPDATE ... SET name, description, unitofsale, updated_at =
\* now() leaves: created_at is not in the SET list.
item_set(old, f, now) ==
    [old EXCEPT !.name = f.name, !.description = f.description,
                !.unitofsale = f.unitofsale, !.updated_at = now]

\* UPDATE item SET ... WHERE itemid = %s RETURNING ...; row if row else None
update_item_sql(tbl, k, f, now) ==
    IF k \in DOMAIN tbl
    THEN LET r == item_set(tbl[k], f, now)
         IN Out(<< Put("item", k, r) >>, Row(r))
    ELSE Out(<<>>, None)

\* INSERT ... ON CONFLICT (itemid) DO UPDATE SET ... RETURNING ...
upsert_item_sql(tbl, k, f, now) ==
    IF k \in DOMAIN tbl
    THEN LET r == item_set(tbl[k], f, now)
         IN Out(<< Put("item", k, r) >>, Row(r))
    ELSE LET r == ItemRow(k, f, schema_timestamps(now))
         IN Out(<< Put("item", k, r) >>, Row(r))

\* delete_item returning cur.rowcount >= 0.
delete_item_sql_ge(tbl, k) ==
    IF k \in DOMAIN tbl
    THEN Out(<< Del("item", k, tbl[k]) >>, BoolVal(1 >= 0))
    ELSE Out(<<>>, BoolVal(0 >= 0))

\* DELETE FROM item WHERE itemid = %s; return cur.rowcount == 1
delete_item_sql(tbl, k) ==
    IF k \in DOMAIN tbl
    THEN Out(<< Del("item", k, tbl[k]) >>, BoolVal(1 = 1))
    ELSE Out(<<>>, BoolVal(0 = 1))

\* The keys of a table in ascending order (ORDER BY itemid).
RECURSIVE OrderBy(_)
OrderBy(S) ==
    IF S = {} THEN <<>>
    ELSE LET m == CHOOSE x \in S : \A y \in S : x <= y
         IN << m >> \o OrderBy(S \ {m})

\* LIMIT and OFFSET with the offset counted in pages, not in rows.
LimitOffset_pages(s, lim, off) ==
    [i \in 1..(IF Len(s) - off * lim < lim
               THEN (IF Len(s) - off * lim < 0 THEN 0 ELSE Len(s) - off * lim)
               ELSE lim) |-> s[off * lim + i]]

\* LIMIT lim OFFSET off of a sequence.
LimitOffset(s, lim, off) ==
    [i \in 1..(IF Len(s) - off < lim
               THEN (IF Len(s) - off < 0 THEN 0 ELSE Len(s) - off)
               ELSE lim) |-> s[off + i]]

\* SELECT ... FROM item ORDER BY itemid LIMIT %s OFFSET %s; fetchall()
get_all_items_sql(tbl, lim, off) ==
    LET keys == LimitOffset(OrderBy(DOMAIN tbl), lim, off)
    IN Out(<<>>, Rows([i \in DOMAIN keys |-> tbl[keys[i]]]))

LocRow(k, f, ts) ==
    [locid |-> k, name |-> f.name, description |-> f.description,
     address |-> f.address, contact |-> f.contact, latitude |-> f.latitude,
     longitude |-> f.longitude, storecategory |-> f.storecategory,
     locationcategory |-> f.locationcategory,
     storecategorynote |-> f.storecategorynote,
     locationcategorynote |-> f.locationcategorynote,
     created_at |-> ts.created_at, updated_at |-> ts.updated_at]

\* SELECT ... FROM locations WHERE locid = %s; row if row else None
get_location_sql(tbl, k) ==
    Out(<<>>, IF k \in DOMAIN tbl THEN Row(tbl[k]) ELSE None)

\* SELECT ... FROM locations ORDER BY locid LIMIT %s OFFSET %s
get_all_locations_sql(tbl, lim, off) ==
    LET keys == LimitOffset(OrderBy(DOMAIN tbl), lim, off)
    IN Out(<<>>, Rows([i \in DOMAIN keys |-> tbl[keys[i]]]))

\* INSERT INTO locations (locid, name, ...) ... RETURNING
insert_location_sql(tbl, k, f, now) ==
    IF k \in DOMAIN tbl
    THEN Out(<<>>, Raised("UniqueViolation"))
    ELSE LET r == LocRow(k, f, schema_timestamps(now))
         IN Out(<< Put("locations", k, r) >>, Row(r))

\* The row ON CONFLICT (locid) DO UPDATE SET ... leaves: the ten fields
\* of EXCLUDED and updated_at = now(); created_at is not in the SET list.
location_set(old, f, now) ==
    [old EXCEPT !.name = f.name, !.description = f.description,
                !.address = f.address, !.contact = f.contact,
                !.latitude = f.latitude, !.longitude = f.longitude,
                !.storecategory = f.storecategory,
                !.locationcategory = f.locationcategory,
                !.storecategorynote = f.storecategorynote,
                !.locationcategorynote = f.locationcategorynote,
                !.updated_at = now]

\* INSERT INTO locations ... ON CONFLICT (locid) DO UPDATE SET ... RETURNING
upsert_location_sql(tbl, k, f, now) ==
    IF k \in DOMAIN tbl
    THEN LET r == location_set(tbl[k], f, now)
         IN Out(<< Put("locations", k, r) >>, Row(r))
    ELSE LET r == LocRow(k, f, schema_timestamps(now))
         IN Out(<< Put("locations", k, r) >>, Row(r))

\* DELETE FROM locations WHERE locid = %s; return cur.rowcount == 1
delete_location_sql(tbl, k) ==
    IF k \in DOMAIN tbl
    THEN Out(<< Del("locations", k, tbl[k]) >>, BoolVal(1 = 1))
    ELSE Out(<<>>, BoolVal(0 = 1))

\* The row INSERT INTO sale_events (...) VALUES (...) creates: id from the
\* serial sequence, created_at from the schema's default.
EventRow(e, id, now) ==
    [id |-> id, locid |-> e.locid, itemid |-> e.itemid, saleqty |-> e.saleqty,
     year |-> e.year, month |-> e.month, day |-> e.day, hour |-> e.hour,
     minute |-> e.minute, second |-> e.second,
     event_timezone |-> e.event_timezone,
     created_at |-> schema_timestamps(now).created_at]

\* The store accepts the tuple: its values are of the columns' types.
Accepted(e) == e.year # NotAnInteger

\* INSERT INTO sale_events (...) VALUES (...) RETURNING ...
insert_sale_event_sql(e, id, now) ==
    IF Accepted(e)
    THEN LET r == EventRow(e, id, now)
         IN Out(<< Put("sale_events", id, r) >>, Row(r))
    ELSE Out(<<>>, Raised("DataError"))

\* SELECT ... FROM sale_events WHERE id = %s; row if row else None
get_sale_event_sql(rows, id) ==
    LET hit == SelectSeq(rows, LAMBDA r : r.id = id)
    IN Out(<<>>, IF hit = <<>> THEN None ELSE Row(hit[1]))

\* a sorts before b: the first field in which they differ is smaller in a.
Before(a, b) ==
    \E i \in DOMAIN a : a[i] < b[i] /\ \A j \in 1..(i - 1) : a[j] = b[j]

\* The rows of a set of keyed rows [key, row] in the order of their keys
\* (an ORDER BY; the keys are distinct here).
RECURSIVE Sorted(_)
Sorted(S) ==
    IF S = {} THEN <<>>
    ELSE LET m == CHOOSE x \in S : \A y \in S \ {x} : Before(x.key, y.key)
         IN << m.row >> \o Sorted(S \ {m})

RowsOf(rows) == {rows[i] : i \in DOMAIN rows}

\* The optional filters: `if locid:` adds AND locid = %s, likewise itemid.
\* "" stands for None and for the empty string, which are both falsy.
Filtered(r, locid, itemid) ==
    /\ locid # "" => r.locid = locid
    /\ itemid # "" => r.itemid = itemid

IdDesc(r) == << 0 - r.id >>

\* SELECT ... FROM sale_events WHERE 1=1 [AND locid = %s] [AND itemid = %s]
\* ORDER BY id DESC LIMIT %s OFFSET %s
get_sale_events_sql(rows, locid, itemid, lim, off) ==
    LET hit == {r \in RowsOf(rows) : Filtered(r, locid, itemid)}
    IN Out(<<>>, Rows(LimitOffset(Sorted({[key |-> IdDesc(r), row |-> r] : r \in hit}),
                             lim, off)))

\* The lower bound with month >= in its second disjunct.
LowerBound_ge(r, sy, sm, sd) ==
    \/ r.year > sy
    \/ (r.year = sy /\ r.month >= sm)
    \/ (r.year = sy /\ r.month = sm /\ r.day >= sd)

\* WHERE (year > %s OR (year = %s AND month > %s)
\*        OR (year = %s AND month = %s AND day >= %s))
LowerBound(r, sy, sm, sd) ==
    \/ r.year > sy
    \/ (r.year = sy /\ r.month > sm)
    \/ (r.year = sy /\ r.month = sm /\ r.day >= sd)

\*   AND (year < %s OR (year = %s AND month < %s)
\*        OR (year = %s AND month = %s AND day <= %s))
UpperBound(r, ey, em, ed) ==
    \/ r.year < ey
    \/ (r.year = ey /\ r.month < em)
    \/ (r.year = ey /\ r.month = em /\ r.day <= ed)

\* ORDER BY year, month, day, hour, minute, second.  The store leaves the
\* order of rows that agree in all six open: tie is 1 or -1, and such rows
\* come by ascending or by descending id.
DateTimeOrder(r, tie) ==
    << r.year, r.month, r.day, r.hour, r.minute, r.second, tie * r.id >>

\* get_sales_by_date_range: the WHERE clause, the filters, the ORDER BY.
get_sales_by_date_range_sql(rows, s, e, locid, itemid, tie) ==
    LET hit == {r \in RowsOf(rows) :
                  /\ LowerBound(r, s[1], s[2], s[3])
                  /\ UpperBound(r, e[1], e[2], e[3])
                  /\ Filtered(r, locid, itemid)}
    IN Out(<<>>, Rows(Sorted({[key |-> DateTimeOrder(r, tie), row |-> r] : r \in hit})))

(***************************************************************************)
(* The steps every repository method shares:                               *)
(*   async with self.get_connection() as conn:                             *)
(*       async with conn.cursor() as cur:                                  *)
(*           await cur.execute(...); await conn.commit(); return ...       *)
(***************************************************************************)
WriteOps ==
    {"insert_item", "update_item", "upsert_item", "delete_item",
     "insert_location", "upsert_location", "delete_location",
     "insert_sale_event", "bulk_insert_sale_events"}

\* What the statement of call c does on the committed rows at time now.
Statement(c, now) ==
    CASE c.op = "get_item" -> get_item_sql(item, c.itemid)
      [] c.op = "get_all_items" -> get_all_items_sql(item, c.limit, c.offset)
      [] c.op = "insert_item" -> insert_item_sql(item, c.itemid, c.fields, now)
      [] c.op = "update_item" -> update_item_sql(item, c.itemid, c.fields, now)
      [] c.op = "upsert_item" -> upsert_item_sql(item, c.itemid, c.fields, now)
      [] c.op = "delete_item" -> delete_item_sql(item, c.itemid)
      [] c.op = "get_location" -> get_location_sql(locations, c.locid)
      [] c.op = "get_all_locations"
           -> get_all_locations_sql(locations, c.limit, c.offset)
      [] c.op = "insert_location"
           -> insert_location_sql(locations, c.locid, c.fields, now)
      [] c.op = "upsert_location"
           -> upsert_location_sql(locations, c.locid, c.fields, now)
      [] c.op = "delete_location" -> delete_location_sql(locations, c.locid)
      [] c.op = "get_sale_event" -> get_sale_event_sql(sale_events, c.event_id)
      [] c.op = "get_sale_events"
           -> get_sale_events_sql(sale_events, c.locid, c.itemid, c.limit, c.offset)
      [] c.op = "insert_sale_event" -> insert_sale_event_sql(c.event, next_id, now)
      [] c.op = "get_sales_by_date_range"
           -> get_sales_by_date_range_sql(sale_events, c.start, c.end,
                                          c.locid, c.itemid, c.tie)
      [] c.op = "health_check" -> Out(<<>>, BoolVal(TRUE))

\* The row a writing statement addresses.
Target(c) ==
    CASE c.op \in {"insert_item", "update_item", "upsert_item", "delete_item"}
           -> {<< "item", c.itemid >>}
      [] c.op \in {"insert_location", "upsert_location", "delete_location"}
           -> {<< "locations", c.locid >>}
      [] OTHER -> {}

\* Rows that the open transactions of other tasks have written and not
\* yet committed: a statement that writes one of them waits.
LockedByOthers(t) ==
    UNION {{<< txn[u][i].rel, txn[u][i].key >> : i \in 1..Len(txn[u])} :
           u \in Tasks \ {t}}

Waits(t) == Target(call[t]) \cap LockedByOthers(t) # {}

RECURSIVE ApplyWrites(_, _, _)
ApplyWrites(tbl, ws, rel) ==
    IF ws = <<>> THEN tbl
    ELSE LET w == Head(ws)
             nxt == IF w.rel # rel THEN tbl
                    ELSE IF w.kind = "put" THEN (w.key :> w.row) @@ tbl
                    ELSE [k \in DOMAIN tbl \ {w.key} |-> tbl[k]]
         IN ApplyWrites(nxt, Tail(ws), rel)

RECURSIVE InsertedEvents(_)
InsertedEvents(ws) ==
    IF ws = <<>> THEN <<>>
    ELSE IF Head(ws).rel = "sale_events"
         THEN << Head(ws).row >> \o InsertedEvents(Tail(ws))
         ELSE InsertedEvents(Tail(ws))

\* COMMIT of the writes ws.
Committed(ws) ==
    /\ item' = ApplyWrites(item, ws, "item")
    /\ locations' = ApplyWrites(locations, ws, "locations")
    /\ sale_events' = sale_events \o InsertedEvents(ws)

\* await cur.execute(...) of a method with one statement.
execute(t) ==
    /\ pc[t] = "execute"
    /\ call[t].op # "bulk_insert_sale_events"
    /\ ~Waits(t)
    /\ LET out == Statement(call[t], clock)
       IN /\ ret' = [ret EXCEPT ![t] = out.ret]
          /\ txn' = [txn EXCEPT ![t] = out.writes]
          /\ pc' = [pc EXCEPT ![t] =
                      IF out.ret.kind = "raise" THEN "exit_exc"
                      ELSE IF call[t].op \in WriteOps THEN "commit"
                      ELSE "exit"]
          /\ next_id' = next_id + Len(InsertedEvents(out.writes))
    /\ UNCHANGED << poolVars, conn, call, item, locations, sale_events, clock >>

\* executemany in autocommit: every accepted tuple is committed by itself.
executemany_autocommit(t) ==
    /\ pc[t] = "execute"
    /\ call[t].op = "bulk_insert_sale_events"
    /\ LET n == call[t].done + 1
       IN IF n > Len(call[t].events)
          THEN /\ pc' = [pc EXCEPT ![t] = "commit"]
               /\ ret' = [ret EXCEPT ![t] = IntVal(Len(call[t].events))]
               /\ UNCHANGED << txn, next_id, call, sale_events >>
          ELSE LET out == insert_sale_event_sql(call[t].events[n], next_id, clock)
               IN IF out.ret.kind = "raise"
                  THEN /\ pc' = [pc EXCEPT ![t] = "exit_exc"]
                       /\ ret' = [ret EXCEPT ![t] = out.ret]
                       /\ UNCHANGED << txn, next_id, call, sale_events >>
                  ELSE /\ sale_events' = sale_events \o InsertedEvents(out.writes)
                       /\ next_id' = next_id + 1
                       /\ call' = [call EXCEPT ![t] = [@ EXCEPT !.done = n]]
                       /\ UNCHANGED << pc, ret, txn >>
    /\ UNCHANGED << poolVars, conn, item, locations, clock >>

\* bulk_insert_sale_events, lines 308-314: await cur.executemany(INSERT,
\* events) runs the INSERT once per tuple, in order, inside the connection's
\* transaction; the first tuple the store rejects raises.  Line 316's
\* len(events) is the value returned after the commit.
executemany(t) ==
    /\ pc[t] = "execute"
    /\ call[t].op = "bulk_insert_sale_events"
    /\ LET n == call[t].done + 1
       IN IF n > Len(call[t].events)
          THEN /\ pc' = [pc EXCEPT ![t] = "commit"]
               /\ ret' = [ret EXCEPT ![t] = IntVal(Len(call[t].events))]
               /\ UNCHANGED << txn, next_id, call >>
          ELSE LET out == insert_sale_event_sql(call[t].events[n], next_id, clock)
               IN IF out.ret.kind = "raise"
                  THEN /\ pc' = [pc EXCEPT ![t] = "exit_exc"]
                       /\ ret' = [ret EXCEPT ![t] = out.ret]
                       /\ UNCHANGED << txn, next_id, call >>
                  ELSE /\ txn' = [txn EXCEPT ![t] = @ \o out.writes]
                       /\ next_id' = next_id + 1
                       /\ call' = [call EXCEPT ![t] = [@ EXCEPT !.done = n]]
                       /\ UNCHANGED << pc, ret >>
    /\ UNCHANGED << poolVars, conn, item, locations, sale_events, clock >>

\* The store fails the statement (connection lost, constraint violated).
execute_fault(t) ==
    /\ pc[t] = "execute"
    /\ ret' = [ret EXCEPT ![t] = Raised("OperationalError")]
    /\ pc' = [pc EXCEPT ![t] = "exit_exc"]
    /\ UNCHANGED << poolVars, conn, call, txn, storeVars, clock >>

\* await conn.commit()
commit(t) ==
    /\ pc[t] = "commit"
    /\ Committed(txn[t])
    /\ txn' = [txn EXCEPT ![t] = <<>>]
    /\ pc' = [pc EXCEPT ![t] = "exit"]
    /\ UNCHANGED << poolVars, conn, call, ret, next_id, clock >>

\* The store fails the commit.
commit_fault(t) ==
    /\ pc[t] = "commit"
    /\ ret' = [ret EXCEPT ![t] = Raised("OperationalError")]
    /\ pc' = [pc EXCEPT ![t] = "exit_exc"]
    /\ UNCHANGED << poolVars, conn, call, txn, storeVars, clock >>

\* The connection a task gives back: the one it took last.
Returned(s) == SubSeq(s, 1, Len(s) - 1)

\* release with the connection given back on the normal exit only.
release_leaky(t) ==
    /\ pc[t] \in {"exit", "exit_exc"}
    /\ conn' = [conn EXCEPT ![t] = IF pc[t] = "exit" THEN SubSeq(@, 1, Len(@) - 1) ELSE @]
    /\ txn' = [txn EXCEPT ![t] = <<>>]
    /\ IF pc[t] = "exit"
       THEN /\ Committed(txn[t])
            /\ pc' = [pc EXCEPT ![t] = "done"]
            /\ UNCHANGED ret
       ELSE /\ Leave(t, ret[t].exc)
            /\ UNCHANGED << item, locations, sale_events >>
    /\ UNCHANGED << poolVars, call, next_id, clock >>

\* Leaving `async with self._pool.connection()`: the pool commits what is
\* open on a normal exit, rolls it back on an exception, and takes the
\* connection back either way.
release(t) ==
    /\ pc[t] \in {"exit", "exit_exc"}
    /\ conn' = [conn EXCEPT ![t] = Returned(@)]
    /\ txn' = [txn EXCEPT ![t] = <<>>]
    /\ IF pc[t] = "exit"
       THEN /\ Committed(txn[t])
            /\ pc' = [pc EXCEPT ![t] = "done"]
            /\ UNCHANGED ret
       ELSE /\ Leave(t, ret[t].exc)
            /\ UNCHANGED << item, locations, sale_events >>
    /\ UNCHANGED << poolVars, call, next_id, clock >>

\* The caller has the result; the task is free for its next call.
return(t) ==
    /\ pc[t] \in {"done", "raised"}
    /\ pc' = [pc EXCEPT ![t] = "idle"]
    /\ call' = [call EXCEPT ![t] = NoCall]
    /\ ret' = [ret EXCEPT ![t] = NoRet]
    /\ UNCHANGED << poolVars, conn, txn, storeVars, clock >>

\* The store's clock advances.
tick ==
    /\ clock < MaxClock
    /\ clock' = clock + 1
    /\ UNCHANGED << poolVars, conn, pc, call, txn, ret, storeVars >>

(***************************************************************************)
(* Calls: an idle task enters a method with arguments from a small set.    *)
(***************************************************************************)
Begin(t, c, at) ==
    /\ pc[t] = "idle"
    /\ pc' = [pc EXCEPT ![t] = at]
    /\ call' = [call EXCEPT ![t] = c]
    /\ UNCHANGED << poolVars, conn, txn, ret, storeVars, clock >>

call_connect(t) == Begin(t, [op |-> "connect", pool |-> 0], "connect")

call_disconnect(t) == Begin(t, [op |-> "disconnect", pool |-> 0], "disconnect")

call_health_check(t) ==
    Begin(t, [op |-> "health_check", pool |-> 0], "get_connection")

call_get_item(t, K) ==
    \E k \in K :
        Begin(t, [op |-> "get_item", pool |-> 0, itemid |-> k], "get_connection")

call_get_all_items(t, L, O) ==
    \E lim \in L, off \in O :
        Begin(t, [op |-> "get_all_items", pool |-> 0, limit |-> lim, offset |-> off],
              "get_connection")

call_insert_item(t, K, F) ==
    \E k \in K, f \in F :
        Begin(t, [op |-> "insert_item", pool |-> 0, itemid |-> k, fields |-> f],
              "get_connection")

call_update_item(t, K, F) ==
    \E k \in K, f \in F :
        Begin(t, [op |-> "update_item", pool |-> 0, itemid |-> k, fields |-> f],
              "get_connection")

call_upsert_item(t, K, F) ==
    \E k \in K, f \in F :
        Begin(t, [op |-> "upsert_item", pool |-> 0, itemid |-> k, fields |-> f],
              "get_connection")

call_delete_item(t, K) ==
    \E k \in K :
        Begin(t, [op |-> "delete_item", pool |-> 0, itemid |-> k], "get_connection")

call_get_location(t, K) ==
    \E k \in K :
        Begin(t, [op |-> "get_location", pool |-> 0, locid |-> k], "get_connection")

call_get_all_locations(t, L, O) ==
    \E lim \in L, off \in O :
        Begin(t, [op |-> "get_all_locations", pool |-> 0, limit |-> lim,
                  offset |-> off], "get_connection")

call_insert_location(t, K, F) ==
    \E k \in K, f \in F :
        Begin(t, [op |-> "insert_location", pool |-> 0, locid |-> k, fields |-> f],
              "get_connection")

call_upsert_location(t, K, F) ==
    \E k \in K, f \in F :
        Begin(t, [op |-> "upsert_location", pool |-> 0, locid |-> k, fields |-> f],
              "get_connection")

call_delete_location(t, K) ==
    \E k \in K :
        Begin(t, [op |-> "delete_location", pool |-> 0, locid |-> k],
              "get_connection")

call_get_sale_events(t, L, O) ==
    \E lim \in L, off \in O :
        Begin(t, [op |-> "get_sale_events", pool |-> 0, locid |-> "",
                  itemid |-> "", limit |-> lim, offset |-> off], "get_connection")

\* The serial sequence is capped: no insert starts once MaxEvents ids are used.
call_insert_sale_event(t, E) ==
    \E e \in E :
        /\ next_id <= MaxEvents
        /\ Begin(t, [op |-> "insert_sale_event", pool |-> 0, event |-> e],
                 "get_connection")

\* `done` counts the tuples executemany has run.
call_bulk_insert_sale_events(t, B) ==
    \E evs \in B :
        /\ next_id <= MaxEvents
        /\ Begin(t, [op |-> "bulk_insert_sale_events", pool |-> 0, events |-> evs,
                     done |-> 0], "get_connection")

call_get_sales_by_date_range(t, S, E) ==
    \E s \in S, e \in E, tie \in {1, 0 - 1} :
        Begin(t, [op |-> "get_sales_by_date_range", pool |-> 0, start |-> s,
                  end |-> e, locid |-> "", itemid |-> "", tie |-> tie],
              "get_connection")

(***************************************************************************)
(* The sync routines UpdateItems and UpdateLocations (datamanager.py).     *)
(***************************************************************************)
\* A file is a path that exists or not, and the records parsed from it.
NoFile == [exists |-> FALSE, records |-> <<>>]
File(rs) == [exists |-> TRUE, records |-> rs]

ItemRec(k, f) ==
    [itemid |-> k, name |-> f.name, description |-> f.description,
     unitofsale |-> f.unitofsale]

LocRec(k, f) == [locid |-> k, fields |-> f]

\* load_items_from_json / load_locations_from_json: FileNotFoundError for
\* a path that does not exist, else the list of records.  Both are plain
\* functions (def, not async def): what they return is a list.
load_from_json(file) ==
    IF ~file.exists THEN Raised("FileNotFoundError")
    ELSE [kind |-> "list", list |-> file.records]

\* `await x` needs an awaitable; a list is none, and Python raises
\* TypeError ("object list can't be used in 'await' expression").
Awaitable(x) == x.kind = "coroutine"

Tally(n, i, u, e) ==
    [kind |-> "tally", total |-> n, inserted |-> i, updated |-> u, errors |-> e]

\* UpdateItems, lines 46-82: the loop over the loaded items.  faults are
\* the positions whose store operation raises; st is the item relation, the
\* three counters and the store's clock so far, which has moved on by dt
\* when a record's writing transaction starts.
RECURSIVE UpdateItemsLoop(_, _, _, _, _)
UpdateItemsLoop(items, n, faults, dt, st) ==
    IF n > Len(items) THEN st
    ELSE LET it == items[n]
             now == st.now + dt
             existing == get_item_sql(st.tbl, it.itemid).ret
             out == IF existing # None
                    THEN update_item_sql(st.tbl, it.itemid, it, now)
                    ELSE insert_item_sql(st.tbl, it.itemid, it, now)
         IN IF n \in faults \/ out.ret.kind = "raise"
            THEN UpdateItemsLoop(items, n + 1, faults, dt,
                                 [st EXCEPT !.errors = @ + 1, !.now = now])
            ELSE UpdateItemsLoop(items, n + 1, faults, dt,
                   [tbl |-> ApplyWrites(st.tbl, out.writes, "item"),
                    inserted |-> st.inserted + (IF existing # None THEN 0 ELSE 1),
                    updated |-> st.updated + (IF existing # None THEN 1 ELSE 0),
                    errors |-> st.errors,
                    now |-> now])

\* UpdateLocations, lines 95-132: the loop over the loaded locations.  Every
\* upsert is a transaction of its own and the store's clock has moved on by
\* dt when it starts.
RECURSIVE UpdateLocationsLoop(_, _, _, _, _)
UpdateLocationsLoop(locs, n, faults, dt, st) ==
    IF n > Len(locs) THEN st
    ELSE LET loc == locs[n]
             now == st.now + dt
             out == upsert_location_sql(st.tbl, loc.locid, loc.fields, now)
             tbl == ApplyWrites(st.tbl, out.writes, "locations")
             location_data == get_location_sql(tbl, loc.locid).ret
             insert == /\ location_data # None
                       /\ location_data.row.created_at = location_data.row.updated_at
         IN IF n \in faults
            THEN UpdateLocationsLoop(locs, n + 1, faults, dt,
                                     [st EXCEPT !.errors = @ + 1, !.now = now])
            ELSE UpdateLocationsLoop(locs, n + 1, faults, dt,
                   [tbl |-> tbl,
                    inserted |-> st.inserted + (IF insert THEN 1 ELSE 0),
                    updated |-> st.updated + (IF insert THEN 0 ELSE 1),
                    errors |-> st.errors,
                    now |-> now])

\* UpdateItems line 44 and UpdateLocations line 93:
\*     items = await load_items_from_json(file_path)
\* followed by the loop and the return of the tally.
load(t) ==
    /\ pc[t] = "load"
    /\ LET loaded == load_from_json(call[t].file)
           start(tbl) == [tbl |-> tbl, inserted |-> 0, updated |-> 0, errors |-> 0,
                          now |-> clock]
       IN IF loaded.kind = "raise"
          THEN /\ Leave(t, loaded.exc)
               /\ UNCHANGED << item, locations, clock >>
          ELSE IF ~Awaitable(loaded)
          THEN /\ Leave(t, "TypeError")
               /\ UNCHANGED << item, locations, clock >>
          ELSE \E faults \in SUBSET DOMAIN loaded.list, dt \in {0, 1} :
                 LET st == IF call[t].op = "UpdateItems"
                           THEN UpdateItemsLoop(loaded.list, 1, faults, dt,
                                                start(item))
                           ELSE UpdateLocationsLoop(loaded.list, 1, faults, dt,
                                                    start(locations))
                 IN /\ item' = IF call[t].op = "UpdateItems" THEN st.tbl ELSE item
                    /\ locations' = IF call[t].op = "UpdateItems"
                                    THEN locations ELSE st.tbl
                    /\ clock' = st.now
                    /\ pc' = [pc EXCEPT ![t] = "done"]
                    /\ ret' = [ret EXCEPT ![t] =
                                 Tally(Len(loaded.list), st.inserted, st.updated,
                                       st.errors)]
    /\ UNCHANGED << poolVars, conn, call, txn, sale_events, next_id >>

\* `before` remembers the relation as it is when the routine is called.
call_UpdateItems(t, Fs) ==
    \E f \in Fs :
        Begin(t, [op |-> "UpdateItems", pool |-> 0, file |-> f, before |-> item],
              "connect")

call_UpdateLocations(t, Fs) ==
    \E f \in Fs :
        Begin(t, [op |-> "UpdateLocations", pool |-> 0, file |-> f,
                  before |-> locations], "connect")

(***************************************************************************)
(* Initial state: a repository just constructed (no pool), an empty store. *)
(***************************************************************************)
Empty == [k \in {} |-> 0]

Init ==
    /\ repo_pool = 0
    /\ poolState = [p \in PoolIds |-> "unborn"]
    /\ conn = [t \in Tasks |-> <<>>]
    /\ pc = [t \in Tasks |-> "idle"]
    /\ call = [t \in Tasks |-> NoCall]
    /\ txn = [t \in Tasks |-> <<>>]
    /\ ret = [t \in Tasks |-> NoRet]
    /\ item = Empty
    /\ locations = Empty
    /\ sale_events = <<>>
    /\ next_id = 1
    /\ clock = 0

(***************************************************************************)
(* Spec: concurrent tasks, the pool's lifecycle and the scoped connection  *)
(* of every method, on one item key.                                       *)
(***************************************************************************)
OneKey == {1}
OneItem == {[name |-> "n1", description |-> "d1", unitofsale |-> "ea"]}

Next ==
    \E t \in Tasks :
        \/ call_connect(t)
        \/ call_disconnect(t)
        \/ call_upsert_item(t, OneKey, OneItem)
        \/ call_delete_item(t, OneKey)
        \/ connect(t)
        \/ connect_open(t)
        \/ disconnect(t)
        \/ disconnect_done(t)
        \/ get_connection(t)
        \/ acquire(t)
        \/ acquire_fail(t)
        \/ execute(t)
        \/ execute_fault(t)
        \/ commit(t)
        \/ commit_fault(t)
        \/ release(t)
        \/ return(t)

Spec == Init /\ [][Next]_vars

(***************************************************************************)
(* SpecSeq: one caller, so that calls follow one another and never         *)
(* overlap.                                                                *)
(***************************************************************************)
NextSeq ==
    \E t \in {1} :
        \/ call_connect(t)
        \/ call_disconnect(t)
        \/ call_health_check(t)
        \/ call_upsert_item(t, OneKey, OneItem)
        \/ call_delete_item(t, OneKey)
        \/ connect(t)
        \/ connect_open(t)
        \/ disconnect(t)
        \/ disconnect_done(t)
        \/ get_connection(t)
        \/ acquire(t)
        \/ execute(t)
        \/ execute_fault(t)
        \/ commit(t)
        \/ commit_fault(t)
        \/ release(t)
        \/ return(t)

SpecSeq == Init /\ [][NextSeq]_vars

(***************************************************************************)
(* SpecItems: one caller reading, upserting and deleting items and         *)
(* locations while the store's clock advances.                             *)
(***************************************************************************)
NextItems ==
    \/ tick
    \/ \E t \in {1} :
        \/ call_get_item(t, ItemKeys)
        \/ call_upsert_item(t, ItemKeys, ItemFields)
        \/ call_delete_item(t, ItemKeys)
        \/ call_get_location(t, LocKeys)
        \/ call_upsert_location(t, LocKeys, LocFields)
        \/ call_delete_location(t, LocKeys)
        \/ get_connection(t)
        \/ connect_open(t)
        \/ acquire(t)
        \/ execute(t)
        \/ commit(t)
        \/ release(t)
        \/ return(t)

SpecItems == Init /\ [][NextItems]_vars

(***************************************************************************)
(* SpecPages: a caller paging through an item relation that nobody writes. *)
(* The relation is any set of up to NPageKeys items.                       *)
(***************************************************************************)
PageKeys == 1..NPageKeys
Limits == 1..MaxLimit
Offsets == 0..NPageKeys

InitPages ==
    /\ repo_pool = 0
    /\ poolState = [p \in PoolIds |-> "unborn"]
    /\ conn = [t \in Tasks |-> <<>>]
    /\ pc = [t \in Tasks |-> "idle"]
    /\ call = [t \in Tasks |-> NoCall]
    /\ txn = [t \in Tasks |-> <<>>]
    /\ ret = [t \in Tasks |-> NoRet]
    /\ \E S \in SUBSET PageKeys :
         item = [k \in S |-> ItemRow(k, CHOOSE f \in ItemFields : TRUE,
                                     schema_timestamps(0))]
    /\ locations = Empty
    /\ sale_events = <<>>
    /\ next_id = 1
    /\ clock = 0

NextPages ==
    \E t \in {1} :
        \/ call_get_all_items(t, Limits, Offsets)
        \/ get_connection(t)
        \/ connect_open(t)
        \/ acquire(t)
        \/ execute(t)
        \/ release(t)
        \/ return(t)

SpecPages == InitPages /\ [][NextPages]_vars

(***************************************************************************)
(* SpecRange: a caller inserting sale events and querying date ranges.     *)
(***************************************************************************)
NextRange ==
    \E t \in {1} :
        \/ call_insert_sale_event(t, Events)
        \/ call_get_sales_by_date_range(t, Dates, Dates)
        \/ get_connection(t)
        \/ connect_open(t)
        \/ acquire(t)
        \/ execute(t)
        \/ commit(t)
        \/ release(t)
        \/ return(t)

SpecRange == Init /\ [][NextRange]_vars

(***************************************************************************)
(* SpecBulk: a caller inserting batches of sale events, some with a tuple  *)
(* the store rejects, with store faults, and reading the relation.         *)
(***************************************************************************)
Batches == UNION {[1..n -> BatchTuples] : n \in 0..MaxBatch}

NextBulk ==
    \E t \in {1} :
        \/ call_bulk_insert_sale_events(t, Batches)
        \/ call_get_sale_events(t, {MaxBatch}, {0})
        \/ get_connection(t)
        \/ connect_open(t)
        \/ acquire(t)
        \/ execute(t)
        \/ executemany(t)
        \/ execute_fault(t)
        \/ commit(t)
        \/ commit_fault(t)
        \/ release(t)
        \/ return(t)

SpecBulk == Init /\ [][NextBulk]_vars

(***************************************************************************)
(* SpecSync: a caller that fills the store and runs the sync routines on   *)
(* files of up to three records.                                           *)
(***************************************************************************)
SyncKeys == {1, 2, 3}
F1 == CHOOSE f \in ItemFields : f.name = "n1"
F2 == CHOOSE f \in ItemFields : f.name = "n2"
G1 == CHOOSE f \in LocFields : f.name = "n1"
G2 == CHOOSE f \in LocFields : f.name = "n2"

ItemFiles ==
    { NoFile, File(<<>>), File(<< ItemRec(1, F2) >>),
      File(<< ItemRec(1, F2), ItemRec(2, F2), ItemRec(3, F1) >>) }

LocFiles ==
    { NoFile, File(<<>>), File(<< LocRec(1, G2), LocRec(2, G2) >>),
      File(<< LocRec(1, G2), LocRec(2, G1), LocRec(1, G1) >>) }

NextSync ==
    \E t \in {1} :
        \/ call_UpdateItems(t, ItemFiles)
        \/ call_UpdateLocations(t, LocFiles)
        \/ call_insert_item(t, SyncKeys, {F1})
        \/ call_upsert_location(t, {1}, {G1})
        \/ connect(t)
        \/ connect_open(t)
        \/ load(t)
        \/ get_connection(t)
        \/ acquire(t)
        \/ execute(t)
        \/ commit(t)
        \/ release(t)
        \/ return(t)

SpecSync == Init /\ [][NextSync]_vars

(***************************************************************************)
(* Claims.                                                                 *)
(***************************************************************************)
\* The positions of a method inside `async with self.get_connection()`.
InScope == {"execute", "commit", "exit", "exit_exc"}

Sum(f) == SumOver(Tasks, [t \in Tasks |-> [i \in 1..Len(f[t]) |-> 1]], 1)

\* C3: every repository operation holds exactly one connection while it is
\* inside the scope of get_connection and none outside it, on every exit
\* path (a value, not-found, a raised fault), so when all operations have
\* finished no connection is borrowed; no pool ever has more than max_size
\* of its connections borrowed, so that while the repository has had one
\* pool only (no disconnect has replaced it) the number of borrowed
\* connections is at most max_size.
C3_ScopedConnection ==
    /\ \A t \in Tasks : Len(conn[t]) = IF pc[t] \in InScope THEN 1 ELSE 0
    /\ (\A t \in Tasks : pc[t] \in {"idle", "done", "raised"}) => Sum(conn) = 0
    /\ \A p \in PoolIds : Borrowed(p) <= max_size
    /\ Cardinality(PoolIds \ NewPools) <= 1 => Sum(conn) <= max_size

\* C3 witness: one operation has left by a raised store fault and holds
\* nothing, while another holds the pool's last connection.
C3_Witness ==
    \E t, u \in Tasks :
        /\ pc[t] = "raised" /\ ret[t] = Raised("OperationalError")
        /\ conn[t] = <<>>
        /\ pc[u] \in InScope
        /\ repo_pool # 0 /\ Borrowed(repo_pool) = max_size

LivePools == {p \in PoolIds : poolState[p] \in {"created", "open"}}

StepOf(t) == pc'[t] # pc[t]

\* C4: connect with a pool in place creates none and changes neither the
\* pool nor its connections; disconnect with no pool changes nothing; at
\* most one pool exists, and it is the one the repository holds; when
\* disconnect completes the repository holds no pool, and connect then
\* constructs a pool that did not exist before.
C4_Lifecycle ==
    /\ [](Cardinality(LivePools) <= 1 /\ LivePools \subseteq {repo_pool})
    /\ [][\A t \in Tasks :
            /\ (pc[t] = "connect" /\ repo_pool # 0 /\ StepOf(t))
                 => (poolVars' = poolVars /\ conn' = conn /\ pc'[t] = "done")
            /\ (pc[t] = "disconnect" /\ repo_pool = 0 /\ StepOf(t))
                 => (poolVars' = poolVars /\ conn' = conn /\ pc'[t] = "done")
            /\ (pc[t] = "closing" /\ StepOf(t))
                 => (repo_pool' = 0 /\ LivePools' = {})
            /\ (pc[t] \in {"connect", "get_connection"} /\ repo_pool = 0 /\ StepOf(t))
                 => (poolState[repo_pool'] = "unborn" /\ LivePools' = {repo_pool'})
         ]_vars

\* C4 witness: a connect that found the pool in place has returned, after
\* an earlier pool was closed and replaced.
C4_Witness ==
    /\ pc[1] = "done" /\ call[1].op = "connect"
    /\ repo_pool = 2 /\ poolState[1] = "closed" /\ poolState[2] = "open"

\* The table, the key and the fields a call on items or locations names.
TableOf(c) == IF c.op \in {"upsert_item", "delete_item", "get_item"}
              THEN item ELSE locations

KeyOf(c) == IF c.op \in {"upsert_item", "delete_item", "get_item"}
            THEN c.itemid ELSE c.locid

Mutable(c) == IF c.op = "upsert_item"
              THEN {"name", "description", "unitofsale"}
              ELSE {"name", "description", "address", "contact", "latitude",
                    "longitude", "storecategory", "locationcategory",
                    "storecategorynote", "locationcategorynote"}

\* The commit of the call of task t succeeds in this step.
Commits(t, ops) ==
    call[t].op \in ops /\ pc[t] = "commit" /\ pc'[t] = "exit"

\* The statement of the call of task t runs in this step.
Executes(t, ops) ==
    call[t].op \in ops /\ pc[t] = "execute" /\ pc'[t] # "execute"

Others(tbl, k) == [j \in DOMAIN tbl \ {k} |-> tbl[j]]

\* C6: when an upsert_item or upsert_location commits, the row of its key
\* has every mutable field as supplied; if the key existed, created_at is
\* what it was and updated_at is not smaller than it was; the key has a row
\* afterwards whether or not it had one, and no other row and no other
\* relation changes.
C6_Upsert ==
    [][\A t \in Tasks :
        Commits(t, {"upsert_item", "upsert_location"}) =>
          LET c == call[t]
              k == KeyOf(c)
              old == TableOf(c)
              new == TableOf(c)'
          IN /\ DOMAIN new = DOMAIN old \cup {k}
             /\ \A fld \in Mutable(c) : new[k][fld] = c.fields[fld]
             /\ k \in DOMAIN old =>
                  /\ new[k].created_at = old[k].created_at
                  /\ new[k].updated_at >= old[k].updated_at
             /\ Others(new, k) = Others(old, k)
             /\ c.op = "upsert_item" => locations' = locations
             /\ c.op = "upsert_location" => item' = item
             /\ sale_events' = sale_events
      ]_vars

\* C6 witness: an upsert has committed on a key that existed: the row has
\* the new fields, and an update time later than its creation time.
C6_Witness ==
    /\ pc[1] = "exit" /\ call[1].op = "upsert_item"
    /\ call[1].itemid \in DOMAIN item
    /\ item[call[1].itemid].name = call[1].fields.name
    /\ item[call[1].itemid].created_at < item[call[1].itemid].updated_at
    /\ 1 \in DOMAIN locations
    /\ locations[1].created_at < locations[1].updated_at

\* C7: delete_item and delete_location return whether their key was in the
\* store; the commit removes the row of that key and no other, so a key
\* that was absent leaves the store as it was; get_item and get_location
\* of an absent key return None and do not raise.
C7_Delete ==
    [][\A t \in Tasks :
        /\ Executes(t, {"delete_item", "delete_location"}) =>
             ret'[t] = BoolVal(KeyOf(call[t]) \in DOMAIN TableOf(call[t]))
        /\ Commits(t, {"delete_item", "delete_location"}) =>
             /\ TableOf(call[t])' = Others(TableOf(call[t]), KeyOf(call[t]))
             /\ call[t].op = "delete_item" => locations' = locations
             /\ call[t].op = "delete_location" => item' = item
             /\ sale_events' = sale_events
             /\ ret[t].val = FALSE => (item' = item /\ locations' = locations)
        /\ Executes(t, {"get_item", "get_location"}) =>
             /\ ret'[t].kind # "raise"
             /\ KeyOf(call[t]) \notin DOMAIN TableOf(call[t]) => ret'[t] = None
             /\ pc'[t] = "exit"
      ]_vars

\* C7 witness: delete_item has returned true for a key, which is gone,
\* while the other item is still there.
C7_Witness ==
    /\ pc[1] = "done" /\ call[1].op = "delete_item"
    /\ ret[1] = BoolVal(TRUE)
    /\ call[1].itemid \notin DOMAIN item
    /\ DOMAIN item # {}

\* The itemids of the page get_all_items(limit, offset) returns.
Page(lim, off) ==
    LET rows == get_all_items_sql(item, lim, off).ret.rows
    IN [i \in DOMAIN rows |-> rows[i].itemid]

\* The pages at offsets 0, L, 2L, ... up to the first empty one, joined.
RECURSIVE Pages(_, _)
Pages(lim, off) ==
    IF Page(lim, off) = <<>> THEN <<>>
    ELSE Page(lim, off) \o Pages(lim, off + lim)

Ascending(s) == \A i, j \in DOMAIN s : i < j => s[i] < s[j]

Range(s) == {s[i] : i \in DOMAIN s}

\* C8: for every page size L >= 1, the pages of get_all_items at offsets
\* 0, L, 2L, ... are ascending by itemid, every itemid of a later page is
\* greater than every itemid of an earlier page (so pages are disjoint),
\* each page but the last is full, and joined the pages are the whole item
\* relation in ascending order; the page a call returned is that page.
C8_Pagination ==
    /\ \A lim \in Limits :
        /\ Ascending(Pages(lim, 0))
        /\ Range(Pages(lim, 0)) = DOMAIN item
        /\ Len(Pages(lim, 0)) = Cardinality(DOMAIN item)
        /\ \A a, b \in 0..NPageKeys :
             a < b =>
               /\ \A x \in Range(Page(lim, a * lim)), y \in Range(Page(lim, b * lim)) :
                    x < y
               /\ Page(lim, b * lim) # <<>> => Len(Page(lim, a * lim)) = lim
    /\ \A t \in Tasks :
        (call[t].op = "get_all_items" /\ pc[t] \in {"exit", "done"}) =>
          /\ ret[t].kind = "rows"
          /\ [i \in DOMAIN ret[t].rows |-> ret[t].rows[i].itemid]
               = Page(call[t].limit, call[t].offset)
          /\ \A i \in DOMAIN ret[t].rows :
               ret[t].rows[i] = item[ret[t].rows[i].itemid]

\* C8 witness: the spec's case, get_all_items(limit=2, offset=2) returning
\* the second page of a relation of four items.
C8_Witness ==
    /\ pc[1] = "done" /\ call[1].op = "get_all_items"
    /\ call[1].limit = 2 /\ call[1].offset = 2
    /\ Cardinality(DOMAIN item) = 4
    /\ Len(ret[1].rows) = 2
    /\ Page(2, 0) # Page(2, 2)

\* A date as one number; months and days are below 100.
DayNumber(d) == d[1] * 10000 + d[2] * 100 + d[3]

DateOf(r) == << r.year, r.month, r.day >>

\* C5: get_sales_by_date_range without filters returns, once each, exactly
\* the stored events whose (year, month, day) lies between the start and
\* the end triple in lexicographic order, both included; with start = end
\* these are the events of that date, whatever their time of day, and with
\* start after end there are none.
C5_DateRange ==
    \A t \in Tasks :
        (call[t].op = "get_sales_by_date_range" /\ pc[t] \in {"exit", "done"}) =>
          LET got == RowsOf(ret[t].rows)
              s == call[t].start
              e == call[t].end
          IN /\ ret[t].kind = "rows"
             /\ got = {r \in RowsOf(sale_events) :
                         /\ DayNumber(s) <= DayNumber(DateOf(r))
                         /\ DayNumber(DateOf(r)) <= DayNumber(e)}
             /\ Len(ret[t].rows) = Cardinality(got)
             /\ s = e => got = {r \in RowsOf(sale_events) : DateOf(r) = s}
             /\ DayNumber(s) > DayNumber(e) => got = {}

\* C5 witness: a query with start = end has returned two events of that
\* date that differ in their hour.
C5_Witness ==
    /\ pc[1] = "done" /\ call[1].op = "get_sales_by_date_range"
    /\ call[1].start = call[1].end
    /\ Len(ret[1].rows) = 2
    /\ ret[1].rows[1].hour # ret[1].rows[2].hour

InBulk(t) == call[t].op = "bulk_insert_sale_events"

\* The fields of a row that come from its tuple.
TupleOf(r) ==
    [locid |-> r.locid, itemid |-> r.itemid, saleqty |-> r.saleqty,
     year |-> r.year, month |-> r.month, day |-> r.day, hour |-> r.hour,
     minute |-> r.minute, second |-> r.second,
     event_timezone |-> r.event_timezone]

\* C2: during a call of bulk_insert_sale_events the relation sale_events
\* changes in one step only, the commit, which appends one row per tuple of
\* the batch, in order, and after which the call returns N; a call that
\* raises, at whatever tuple or at the commit, has changed nothing; a batch
\* with a rejected tuple never commits.
C2_AllOrNothing ==
    /\ [](\A t \in Tasks : InBulk(t) =>
            /\ (\E i \in DOMAIN call[t].events : ~Accepted(call[t].events[i]))
                 => pc[t] \notin {"commit", "exit", "done"}
            /\ pc[t] \in {"exit", "done"} => ret[t] = IntVal(Len(call[t].events)))
    /\ [][\A t \in Tasks : InBulk(t) =>
            /\ sale_events' # sale_events =>
                 /\ Commits(t, {"bulk_insert_sale_events"})
                 /\ Len(sale_events') = Len(sale_events) + Len(call[t].events)
                 /\ \A i \in DOMAIN call[t].events :
                      TupleOf(sale_events'[Len(sale_events) + i]) = call[t].events[i]
                 /\ \A i \in DOMAIN sale_events : sale_events'[i] = sale_events[i]
            /\ (Commits(t, {"bulk_insert_sale_events"}) /\ call[t].events # <<>>)
                 => sale_events' # sale_events
            /\ pc'[t] = "raised" => pc[t] # "exit"
         ]_vars

\* C2 witness: a batch whose rejected tuple is not its first has raised
\* after an earlier batch was committed.
C2_Witness ==
    /\ pc[1] = "raised" /\ InBulk(1)
    /\ ret[1] = Raised("DataError")
    /\ call[1].done >= 1
    /\ sale_events # <<>>

Finished(t, op) == call[t].op = op /\ pc[t] \in {"done", "raised"}

Ids(recs) == {recs[i].itemid : i \in DOMAIN recs}

Distinct(recs) == Cardinality(Ids(recs)) = Len(recs)

\* C1: UpdateItems on a readable file of k records with distinct itemids,
\* e of them in the store when it is called, returns the tally
\* {total: k, inserted: k - e, updated: e, errors: 0}, and afterwards every
\* itemid of the file has the name, description and unitofsale of the file.
C1_UpdateItems ==
    \A t \in Tasks :
        (/\ Finished(t, "UpdateItems")
         /\ call[t].file.exists
         /\ Distinct(call[t].file.records)) =>
          LET recs == call[t].file.records
              k == Len(recs)
              e == Cardinality(Ids(recs) \cap DOMAIN call[t].before)
          IN /\ ret[t] = Tally(k, k - e, e, 0)
             /\ \A i \in DOMAIN recs :
                  /\ recs[i].itemid \in DOMAIN item
                  /\ item[recs[i].itemid].name = recs[i].name
                  /\ item[recs[i].itemid].description = recs[i].description
                  /\ item[recs[i].itemid].unitofsale = recs[i].unitofsale

\* C9: UpdateItems and UpdateLocations, once the batch is loaded, do not
\* raise to their caller: a record whose store operation raises is counted
\* in errors, and every other record of the batch is processed, so it is in
\* the store afterwards.
C9_Isolation ==
    \A t \in Tasks :
        /\ (Finished(t, "UpdateItems") /\ call[t].file.exists) =>
             /\ ret[t].kind = "tally"
             /\ Cardinality({i \in DOMAIN call[t].file.records :
                               call[t].file.records[i].itemid \notin DOMAIN item})
                  <= ret[t].errors
        /\ (Finished(t, "UpdateLocations") /\ call[t].file.exists) =>
             /\ ret[t].kind = "tally"
             /\ Cardinality({i \in DOMAIN call[t].file.records :
                               call[t].file.records[i].locid \notin DOMAIN locations})
                  <= ret[t].errors

\* C10: UpdateLocations, with no other writer, counts as inserted exactly
\* the records whose locid was not in the store just before their upsert
\* (the first occurrence of a locid that was absent when the routine was
\* called) and as updated exactly the others.
C10_Classification ==
    \A t \in Tasks :
        (Finished(t, "UpdateLocations") /\ call[t].file.exists) =>
          LET recs == call[t].file.records
              new == {i \in DOMAIN recs :
                        /\ recs[i].locid \notin DOMAIN call[t].before
                        /\ \A j \in 1..(i - 1) : recs[j].locid # recs[i].locid}
          IN /\ ret[t].kind = "tally"
             /\ ret[t].inserted = Cardinality(new)
             /\ ret[t].updated = Len(recs) - Cardinality(new)

\* The counters of the loop of a sync routine after its first n records,
\* started on the relation tbl, with the store operations at the positions
\* faults raising.
Counters(op, recs, n, faults, tbl) ==
    LET st0 == [tbl |-> tbl, inserted |-> 0, updated |-> 0, errors |-> 0,
                now |-> clock]
    IN IF op = "UpdateItems"
       THEN UpdateItemsLoop(SubSeq(recs, 1, n), 1, faults, 1, st0)
       ELSE UpdateLocationsLoop(SubSeq(recs, 1, n), 1, faults, 1, st0)

\* Every record of the loop adds one to exactly one of the three counters
\* and takes nothing from the others.
OneCounterEach(op, recs, tbl) ==
    \A faults \in SUBSET DOMAIN recs :
        \A n \in DOMAIN recs :
            LET a == Counters(op, recs, n - 1, faults, tbl)
                b == Counters(op, recs, n, faults, tbl)
            IN /\ b.inserted >= a.inserted
               /\ b.updated >= a.updated
               /\ b.errors >= a.errors
               /\ b.inserted + b.updated + b.errors
                    = a.inserted + a.updated + a.errors + 1

SyncOps == {"UpdateItems", "UpdateLocations"}

\* C11: UpdateItems and UpdateLocations return a tally whose total is the
\* number of records loaded from the file and whose inserted, updated and
\* errors add up to total; in the loop every record adds one to exactly one
\* of the three counters, and no counter goes down.
C11_Tally ==
    \A t \in Tasks :
        (call[t].op \in SyncOps /\ call[t].file.exists) =>
          /\ OneCounterEach(call[t].op, call[t].file.records, call[t].before)
          /\ pc[t] \in {"done", "raised"} =>
               /\ ret[t].kind = "tally"
               /\ ret[t].total = Len(call[t].file.records)
               /\ ret[t].inserted + ret[t].updated + ret[t].errors = ret[t].total

\* A step constructs the pool p.
Creates(p) == poolState[p] = "unborn" /\ poolState'[p] # "unborn"

\* A step hands the task t a connection of the pool p.
Obtains(t, p) == conn'[t] = Append(conn[t], p)

\* A pool is constructed only while the repository has none, and is the
\* repository's pool from that step on: callers that arrive together
\* construct one pool between them.
OnePoolCreated ==
    \A p \in PoolIds :
        Creates(p) =>
          /\ repo_pool = 0
          /\ repo_pool' = p
          /\ \A q \in PoolIds \ {p} : ~Creates(q)

\* No connection comes from a pool whose open() has not returned.
OpenedFirst ==
    \A t \in Tasks, p \in PoolIds : Obtains(t, p) => poolState[p] # "created"

\* No connection comes from a pool that disconnect has begun to close.
NotWhileClosing ==
    \A t \in Tasks, p \in PoolIds : Obtains(t, p) => poolState[p] # "closed"

\* C12: when several callers enter get_connection or connect on a
\* repository without a pool, one pool is constructed, no caller gets a
\* connection of it before its open step has completed, and no caller gets
\* a connection of a pool that disconnect has begun to close.
C12_LazyInit == [][OnePoolCreated /\ OpenedFirst /\ NotWhileClosing]_vars

====
